---- MODULE Spec2Model ----
(***************************************************************************)
(* Model of the expense approval workflow of the club-management backend.  *)
(*                                                                         *)
(* The store (the Expense and Archive collections) is shared state; every  *)
(* HTTP request is a handler that runs as a sequence of steps, one step    *)
(* per database round trip (each `await` of a query in the controller).    *)
(* Handlers of different requests interleave between those steps, as they  *)
(* do on the Node.js event loop.                                           *)
(***************************************************************************)
EXTENDS Integers, FiniteSets, Sequences, TLC

VARIABLES
    expenses,   \* Expense collection: function from the ids of the stored documents to documents
    nextId,     \* next fresh _id handed out by Expense.create
    archives,   \* Archive collection: status of the Archive document of each year label
    settings,   \* ClubSettings collection: its documents, in the order of their creation
    users,      \* User collection: function from the ids of the stored documents to documents
    events,     \* Event collection: function from the ids of the stored documents to documents
    now,        \* wall clock (new Date()): in months, and in hours or seconds in the
                \* specifications of the login lock and of the sessions
    reqs,       \* the requests in flight: handlers between their first query and their write
    resp,       \* the response sent last
    okLog       \* per expense id, the transitions answered with success so far, with their caller

vars == <<expenses, nextId, archives, settings, users, events, now, reqs, resp, okLog>>
store == <<expenses, nextId, archives, settings, users, events, now>>

----------------------------------------------------------------------------
(* Bounds *)

MaxExpenses == 1      \* documents ever created
MaxReqs == 2          \* handlers in flight at once
MaxMonths == 1        \* months after StartDate at which the server may be running
MaxDocs == 3          \* documents of a collection that a report is run on
MaxCalendarMonths == 30   \* months of the calendar that getFinancialYear is asked about
MaxClock == 3         \* clock ticks of a run of the authentication handlers
MaxAttempts == 6      \* stored failed attempts beyond which no further login is sent
MaxSessions == 2      \* saves of a user's sessions (increments of __v) in a run

----------------------------------------------------------------------------
(* Values *)

Null == "null"                 \* undefined / unset field
NullDate == -1                 \* unset Date field
StartDate == 2025 * 12 + 5     \* June 2025, as year * 12 + getMonth()
Dates == StartDate .. (StartDate + MaxMonths)

Statuses == {"pending", "approved", "rejected", "reimbursed", "paid"}
Treasurer == "t1"              \* a user with role treasurer
President == "p1"              \* a user with role president
Approvers == {Treasurer, President}   \* the callers of approveExpense (both pass treasurerOnly)
Members == {"m1"}
UserIds == Approvers \cup Members
EventIds == {"e1"}
MissingRef == "x9"             \* an id no document has
Reasons == {Null, "", "dup"}   \* req.body.reason: missing, empty, given
References == {Null, "UTR123"} \* req.body.reference
SubmitAmounts == {0, 1}        \* req.body.amount of a new expense
UpdateAmounts == {0, 1, 2}     \* req.body.amount of an update
ExpenseIds == 1 .. MaxExpenses

\* a getFinancialYear whose year starts in June
getFinancialYearFromJune(date) ==
    LET year == date \div 12
        month == date % 12
    IN  IF month >= 5 THEN <<year, year + 1>> ELSE <<year - 1, year>>

\* helpers.js getFinancialYear: the label `${y}-${y + 1}` is the pair <<y, y + 1>>
getFinancialYear(date) ==
    LET year == date \div 12
        month == date % 12
    IN  IF month >= 6 THEN <<year, year + 1>> ELSE <<year - 1, year>>

FiscalYears == {getFinancialYear(d) : d \in Dates}
NoYear == <<0, 0>>

----------------------------------------------------------------------------
(* User, Event and ClubSettings documents *)

\* USER_ROLES, as far as the handlers tell the roles apart
USER_ROLES ==
    {"member", "joint_secretary", "secretary", "treasurer", "president",
     "faculty_coordinator", "alumni"}

ADMIN_ROLES == {"president", "secretary", "treasurer", "faculty_coordinator"}

\* userSchema: the fields the handlers read or write, and their defaults. refreshTokens
\* is kept as the set of its token strings; v is the version key __v.
UserDefaults ==
    [ role |-> "member", isAdmin |-> TRUE, isActive |-> TRUE, isAlumni |-> FALSE,
      hasChangedPassword |-> FALSE, passwordChangedAt |-> NullDate,
      loginAttempts |-> 0, lockUntil |-> NullDate,
      refreshTokens |-> {}, rotaractYear |-> NoYear, v |-> 0 ]

\* jwt.sign({ id }, secret, { expiresIn }): the payload is the user's id, iat (the time of
\* issue) and exp = iat + expiresIn, and the signature is a function of the payload, so the
\* token is a function of the user and the time of issue
RefreshToken(user, at) == <<user, at>>
NoToken == <<Null, NullDate>>

\* clubSettingsSchema: the document ClubSettings.getSettings creates
SettingsDefaults == [currentRotaractYear |-> <<2025, 2026>>]

\* the roles of the users of the club
RoleOf(user) ==
    IF user = Treasurer THEN "treasurer" ELSE IF user = President THEN "president" ELSE "member"

\* addMember and syncAdminUsers: the document handed to User.create
NewUser(role) == [UserDefaults EXCEPT !.role = role, !.isAdmin = role \in ADMIN_ROLES]

\* the User collection of a club with the users ids, all added in the year of the settings
Club(ids) ==
    [user \in ids |-> [NewUser(RoleOf(user)) EXCEPT
                           !.rotaractYear = SettingsDefaults.currentRotaractYear]]

\* eventSchema: the fields the reports read
EventDefaults == [estimatedBudget |-> 0, startDate |-> NullDate, rotaractYear |-> NoYear]

\* the Event collection with the events ids, planned for the first month
Planned(ids) ==
    [event \in ids |-> [EventDefaults EXCEPT !.startDate = StartDate,
                                             !.rotaractYear = getFinancialYear(StartDate)]]

----------------------------------------------------------------------------
(* Expense documents *)

\* expenseSchema: the fields and their defaults
ExpenseDefaults ==
    [ member |-> Null, event |-> Null, category |-> Null, amount |-> 0,
      date |-> NullDate, status |-> "pending",
      approvedBy |-> Null, approvedAt |-> NullDate,
      rejectedBy |-> Null, rejectedAt |-> NullDate, rejectionReason |-> Null,
      reimbursedBy |-> Null, reimbursedAt |-> NullDate, reimbursementReference |-> Null,
      rotaractYear |-> NoYear, isArchived |-> FALSE,
      manual |-> FALSE ]   \* manual: created by addManualExpense (history, not a schema field)

\* a schema without the min validator of amount
SchemaNoMin(doc) == doc.status \in Statuses

\* schema validation run by Expense.create / runValidators: amount min 1, status enum
SchemaValid(doc) == doc.amount >= 1 /\ doc.status \in Statuses

\* a createExpense that passes the body's status on to Expense.create
NewExpensePassingStatus(body, user, date) ==
    [ExpenseDefaults EXCEPT !.member = user, !.event = body.event, !.amount = body.amount,
                            !.date = date,
                            !.status = IF body.status = Null THEN "pending" ELSE body.status,
                            !.rotaractYear = getFinancialYear(date)]

\* createExpense: the document handed to Expense.create; body.status is not read. The
\* bodies carry no date, so the schema default Date.now applies.
NewExpense(body, user, date) ==
    [ExpenseDefaults EXCEPT !.member = user, !.event = body.event, !.amount = body.amount,
                            !.date = date,
                            !.rotaractYear = getFinancialYear(date)]

\* addManualExpense: the document handed to Expense.create
NewManualExpense(body, user, date) ==
    [ExpenseDefaults EXCEPT !.member = body.member, !.event = body.event, !.amount = body.amount,
                            !.status = IF body.status = Null THEN "approved" ELSE body.status,
                            !.date = date,
                            !.approvedBy = user, !.approvedAt = date,
                            !.rotaractYear = getFinancialYear(date),
                            !.manual = TRUE]

\* an approveExpense that also takes a rejected expense
CanApproveRejected(doc) == doc.status \in {"pending", "rejected"}

\* approveExpense: the status check
CanApprove(doc) == doc.status = "pending"

\* rejectExpense: the status check
CanReject(doc) == doc.status = "pending"

\* reimburseExpense: the status check
CanReimburse(doc) == doc.status = "approved"

\* a reason check that lets the empty string through
ReasonUndefined(reason) == reason = Null

\* rejectExpense: `if (!reason)`
ReasonMissing(reason) == reason = Null \/ reason = ""

\* approveExpense: the paths modified before expense.save()
ApproveWrite(doc, user, at) ==
    [doc EXCEPT !.status = "approved", !.approvedBy = user, !.approvedAt = at]

\* a rejectExpense that does not stamp rejectedAt
RejectWriteNoDate(doc, user, at, reason) ==
    [doc EXCEPT !.status = "rejected", !.rejectedBy = user, !.rejectionReason = reason]

\* rejectExpense: the paths modified before expense.save()
RejectWrite(doc, user, at, reason) ==
    [doc EXCEPT !.status = "rejected", !.rejectedBy = user, !.rejectedAt = at,
                !.rejectionReason = reason]

\* a reimburseExpense that marks the expense paid
ReimburseWritePaid(doc, user, at, reference) ==
    [doc EXCEPT !.status = "paid", !.reimbursedBy = user, !.reimbursedAt = at,
                !.reimbursementReference = reference]

\* reimburseExpense: the paths modified before expense.save()
ReimburseWrite(doc, user, at, reference) ==
    [doc EXCEPT !.status = "reimbursed", !.reimbursedBy = user, !.reimbursedAt = at,
                !.reimbursementReference = reference]

\* an allowedUpdates list that lets the year label through
allowedUpdatesWithYear == {"amount", "rotaractYear"}

\* updateExpense: allowedUpdates, restricted to the body fields of the model
allowedUpdates == {"amount"}

\* updateExpense: `updates`, the keys of the body that allowedUpdates includes
UpdateKeys(body) == body.keys \cap allowedUpdates

\* updateExpense: what findByIdAndUpdate(id, updates) sets
UpdateWrite(doc, body) ==
    [doc EXCEPT !.amount = IF "amount" \in UpdateKeys(body) THEN body.amount ELSE @,
                !.rotaractYear = IF "rotaractYear" \in UpdateKeys(body)
                                 THEN body.rotaractYear ELSE @]

\* runValidators: the schema validators of the paths in `updates` (amount min 1)
UpdateValid(body) == "amount" \in UpdateKeys(body) => body.amount >= 1

\* closeYear: Expense.updateMany({rotaractYear}, {isArchived: true})
MarkArchived(coll, year) ==
    [id \in DOMAIN coll |->
        IF coll[id].rotaractYear = year THEN [coll[id] EXCEPT !.isArchived = TRUE] ELSE coll[id]]

----------------------------------------------------------------------------
(* Requests *)

\* req.body. keys: which of amount and rotaractYear the body carries (the other fields are
\* missing when they are Null)
NoBody ==
    [event |-> Null, member |-> Null, amount |-> 0, status |-> Null, rotaractYear |-> NoYear,
     keys |-> {}]

\* A handler in flight. op: the handler; id: req.params.id; user: req.user._id (kept for
\* the handlers that store it); arg: body.reason or body.reference; body: the other body
\* fields; year: currentYear; populated: populate found both referenced documents;
\* faults: which of the handler's side effects are going to fail; seen: the User document
\* as the handler's query returned it; token: the refresh token of the body; issued: the
\* refresh token the handler generated
Request(op, id, user) ==
    [ op |-> op, id |-> id, user |-> user, arg |-> Null, body |-> NoBody, year |-> NoYear,
      populated |-> FALSE, faults |-> {}, seen |-> UserDefaults, token |-> NoToken,
      issued |-> NoToken, member |-> Null ]

\* the side effects of a transition that may fail: AuditLog.create, the socket emit
Faults == {"audit", "emit"}

\* The responses, by status code and message. The three transition handlers refuse an
\* illegal transition with 400 and a message of their own.
InvalidTransition == {"CannotApprove", "CannotReject", "CannotReimburse"}
\* Every response
Responses ==
    InvalidTransition \cup {"none", "OK", "ReasonRequired", "ValidationError", "MissingFields",
                            "NotFound", "AlreadyArchived", "NewYearRequired", "HasExpenses", "Failure",
                            "InvalidCredentials", "Locked", "Revoked", "Forbidden"}

\* the model keeps at most MaxReqs handlers in flight
Room == Cardinality(reqs) < MaxReqs

\* Expense.create calls accepted but not yet executed
PendingInserts == Cardinality({q \in reqs : q.op \in {"create", "manual"}})

\* the model creates at most MaxExpenses documents
RoomToCreate == nextId + PendingInserts <= MaxExpenses

\* populate("member") and populate("event") both found their documents
Populated(doc) == doc.member \in DOMAIN users /\ doc.event \in DOMAIN events

\* the handler answers at once: nothing is written, nothing stays in flight
Answer(result) ==
    /\ resp' = result
    /\ UNCHANGED <<store, reqs, okLog>>

\* the handler passed its checks and waits for its write (requests in flight differ in
\* handler, caller or arguments)
Await(q) ==
    /\ Room
    /\ q \notin reqs
    /\ reqs' = reqs \cup {q}
    /\ UNCHANGED <<store, resp, okLog>>

\* the handler's write has run and it answers
Finish(q, result) ==
    /\ reqs' = reqs \ {q}
    /\ resp' = result

\* a transition answered with success is logged with its caller and the side effects
\* that failed
Logged(q, result) ==
    IF result = "OK" THEN [okLog EXCEPT ![q.id] = @ \cup {<<q.op, q.user, q.faults>>}] ELSE okLog

TypeOK ==
    /\ DOMAIN expenses \subseteq ExpenseIds
    /\ nextId \in 1 .. (MaxExpenses + 1)
    /\ now \in Dates
    /\ \A id \in DOMAIN expenses : expenses[id].status \in Statuses
    /\ Cardinality(reqs) <= MaxReqs
    /\ resp \in Responses

Init ==
    /\ expenses = << >>
    /\ nextId = 1
    /\ archives = [y \in FiscalYears |-> "none"]
    /\ settings = <<SettingsDefaults>>
    /\ users = Club(UserIds)
    /\ events = Planned(EventIds)
    /\ now \in Dates
    /\ reqs = {}
    /\ resp = "none"
    /\ okLog = [id \in ExpenseIds |-> {}]

----------------------------------------------------------------------------
(* createExpense: POST /api/expenses *)

\* body.status is a field a client may send although the handler does not read it
Bodies ==
    [event : EventIds \cup {MissingRef}, member : {Null}, amount : SubmitAmounts,
     status : {Null, "approved"}, rotaractYear : {NoYear}, keys : {{"amount"}}]

\* expenseValidation.create (amount notEmpty, isFloat min 1), then Event.findById
CreateRead(user, body) ==
    IF "amount" \notin body.keys \/ body.amount < 1 THEN Answer("ValidationError")
    ELSE IF body.event \notin DOMAIN events THEN Answer("NotFound")
    ELSE RoomToCreate /\ Await([Request("create", 0, user) EXCEPT !.body = body])

\* Expense.create and the 201 response; a schema validation error is caught: 500
Insert(q, doc) ==
    /\ IF SchemaValid(doc)
       THEN /\ expenses' = expenses @@ (nextId :> doc)
            /\ nextId' = nextId + 1
            /\ Finish(q, "OK")
       ELSE /\ Finish(q, "Failure")
            /\ UNCHANGED <<expenses, nextId>>
    /\ UNCHANGED <<archives, settings, users, events, now, okLog>>

CreateInsert(q) ==
    /\ q \in reqs /\ q.op = "create"
    /\ Insert(q, NewExpense(q.body, q.user, now))

----------------------------------------------------------------------------
(* addManualExpense: POST /api/expenses/manual *)

ManualBodies ==
    [event : EventIds \cup {MissingRef}, member : Members \cup {MissingRef},
     amount : SubmitAmounts, status : Statuses \cup {Null}, rotaractYear : {NoYear},
     keys : {{"amount"}}]

\* the required-field check (`!amount` catches a missing amount, NaN, and 0), then
\* User.findById and Event.findById
ManualRead(user, body) ==
    IF "amount" \notin body.keys \/ body.amount = 0 THEN Answer("MissingFields")
    ELSE IF body.member \notin DOMAIN users \/ body.event \notin DOMAIN events
         THEN Answer("NotFound")
    ELSE RoomToCreate /\ Await([Request("manual", 0, user) EXCEPT !.body = body])

ManualInsert(q) ==
    /\ q \in reqs /\ q.op = "manual"
    /\ Insert(q, NewManualExpense(q.body, q.user, now))

----------------------------------------------------------------------------
(* The status transitions: approveExpense, rejectExpense, reimburseExpense *)

\* expense.save() and what follows it. save() is an updateOne by _id that sets the paths
\* the handler modified: it fails when the document is gone, and it does not look at the
\* stored status. `result` is the response once the write has run.
Save(q, doc, result) ==
    /\ q \in reqs
    /\ IF q.id \notin DOMAIN expenses
       THEN /\ Finish(q, "Failure")
            /\ UNCHANGED <<expenses, okLog>>
       ELSE /\ expenses' = [expenses EXCEPT ![q.id] = doc]
            /\ okLog' = Logged(q, result)
            /\ Finish(q, result)
    /\ UNCHANGED <<nextId, archives, settings, users, events, now>>

\* approveExpense and rejectExpense build the email from expense.member.firstName and
\* expense.event.name after the save: a TypeError, hence 500, when populate found nothing
AfterEmail(q) == IF q.populated THEN "OK" ELSE "Failure"

\* a createAuditLog that lets the error of AuditLog.create through to the handler's catch
createAuditLogThrowing(q, result) ==
    IF result = "OK" /\ "audit" \in q.faults THEN "Failure" ELSE result

\* createAuditLog, called when the handler got as far as `result`: the error of
\* AuditLog.create is caught and logged
createAuditLog(q, result) == result

\* the socket emits: they run after res.json, inside a try of their own
AfterEmit(q, result) == result

\* the response of a transition handler whose save has run
Respond(q, result) == AfterEmit(q, createAuditLog(q, result))

\* PUT /api/expenses/:id/approve: Expense.findById with populate, the 404, the status check
ApproveRead(user, id) ==
    IF id \notin DOMAIN expenses THEN Answer("NotFound")
    ELSE IF ~CanApprove(expenses[id]) THEN Answer("CannotApprove")
    ELSE Await([Request("approve", id, user) EXCEPT !.populated = Populated(expenses[id])])

ApproveSave(q) ==
    /\ q.op = "approve"
    /\ Save(q, ApproveWrite(expenses[q.id], q.user, now), Respond(q, AfterEmail(q)))

\* PUT /api/expenses/:id/reject: the reason check, Expense.findById with populate, the 404,
\* the status check
RejectRead(user, id, reason) ==
    IF ReasonMissing(reason) THEN Answer("ReasonRequired")
    ELSE IF id \notin DOMAIN expenses THEN Answer("NotFound")
    ELSE IF ~CanReject(expenses[id]) THEN Answer("CannotReject")
    ELSE Await([Request("reject", id, user) EXCEPT !.arg = reason,
                                                   !.populated = Populated(expenses[id])])

RejectSave(q) ==
    /\ q.op = "reject"
    /\ Save(q, RejectWrite(expenses[q.id], q.user, now, q.arg), Respond(q, AfterEmail(q)))

\* PUT /api/expenses/:id/reimburse: Expense.findById (no populate), the 404, the status check
ReimburseRead(user, id, reference) ==
    IF id \notin DOMAIN expenses THEN Answer("NotFound")
    ELSE IF ~CanReimburse(expenses[id]) THEN Answer("CannotReimburse")
    ELSE Await([Request("reimburse", id, user) EXCEPT !.arg = reference])

ReimburseSave(q) ==
    /\ q.op = "reimburse"
    /\ Save(q, ReimburseWrite(expenses[q.id], q.user, now, q.arg), Respond(q, "OK"))

----------------------------------------------------------------------------
(* updateExpense: PUT /api/expenses/:id *)

\* the bodies of an update that carries an amount
UpdateBodies == {[NoBody EXCEPT !.amount = a, !.keys = {"amount"}] : a \in UpdateAmounts}

\* expenseValidation.update (amount optional, isFloat min 1), Expense.findById and the 404
UpdateRead(id, body) ==
    IF "amount" \in body.keys /\ body.amount < 1 THEN Answer("ValidationError")
    ELSE IF id \notin DOMAIN expenses THEN Answer("NotFound")
    ELSE Await([Request("update", id, Null) EXCEPT !.body = body])

\* Expense.findByIdAndUpdate(id, updates, {runValidators: true}): a validation error is
\* caught (500); no document, no update, and still 200
UpdateSave(q) ==
    /\ q \in reqs /\ q.op = "update"
    /\ IF ~UpdateValid(q.body)
       THEN Finish(q, "Failure") /\ UNCHANGED expenses
       ELSE /\ expenses' = IF q.id \in DOMAIN expenses
                           THEN [expenses EXCEPT ![q.id] = UpdateWrite(@, q.body)]
                           ELSE expenses
            /\ Finish(q, "OK")
    /\ UNCHANGED <<nextId, archives, settings, users, events, now, okLog>>

----------------------------------------------------------------------------
(* deleteExpense: DELETE /api/expenses/:id *)

\* Expense.findById and the 404
DeleteRead(id) ==
    IF id \notin DOMAIN expenses THEN Answer("NotFound")
    ELSE Await(Request("delete", id, Null))

\* expense.deleteOne()
DeleteSave(q) ==
    /\ q \in reqs /\ q.op = "delete"
    /\ expenses' = [id \in DOMAIN expenses \ {q.id} |-> expenses[id]]
    /\ Finish(q, "OK")
    /\ UNCHANGED <<nextId, archives, settings, users, events, now, okLog>>

----------------------------------------------------------------------------
(* closeYear: POST /api/archive/close-year *)

\* User.updateMany({rotaractYear: currentYear, role: "member"}, {isAlumni: true, role: "alumni"})
MarkAlumni(docs, year) ==
    [user \in DOMAIN docs |->
        IF docs[user].rotaractYear = year /\ docs[user].role = "member"
        THEN [docs[user] EXCEPT !.isAlumni = TRUE, !.role = "alumni"]
        ELSE docs[user]]

\* currentYear, the already-archived check, and the Archive document saved as archived;
\* carryOverMembers is req.body.carryOverMembers: "carry" when set, Null when the body has none
CloseYearBy(user, carryOverMembers) ==
    LET currentYear == getFinancialYear(now)
        q == [Request("closeYear", 0, user) EXCEPT !.year = currentYear,
                                                   !.arg = carryOverMembers]
    IN  IF archives[currentYear] = "archived"
        THEN Answer("AlreadyArchived")
        ELSE /\ Room
             /\ q \notin reqs
             /\ archives' = [archives EXCEPT ![currentYear] = "archived"]
             /\ reqs' = reqs \cup {q}
             /\ UNCHANGED <<expenses, nextId, settings, users, events, now, resp, okLog>>

\* a closeYear request that carries the members over
CloseYearArchive == CloseYearBy(Null, "carry")

\* Expense.updateMany({rotaractYear: currentYear}, {isArchived: true}), the members marked as
\* alumni unless carried over, and the 200 response
CloseYearMark(q) ==
    /\ q \in reqs /\ q.op = "closeYear"
    /\ expenses' = MarkArchived(expenses, q.year)
    /\ users' = IF q.arg = "carry" THEN users ELSE MarkAlumni(users, q.year)
    /\ Finish(q, "OK")
    /\ UNCHANGED <<nextId, archives, settings, events, now, okLog>>

Next ==
    \/ \E user \in Members, body \in Bodies : CreateRead(user, body)
    \/ \E q \in reqs : CreateInsert(q)
    \/ \E body \in ManualBodies : ManualRead(Treasurer, body)
    \/ \E q \in reqs : ManualInsert(q)
    \/ \E user \in Approvers, id \in ExpenseIds : ApproveRead(user, id)
    \/ \E q \in reqs : ApproveSave(q)
    \/ \E id \in ExpenseIds, reason \in Reasons : RejectRead(Treasurer, id, reason)
    \/ \E q \in reqs : RejectSave(q)
    \/ \E id \in ExpenseIds, reference \in References : ReimburseRead(Treasurer, id, reference)
    \/ \E q \in reqs : ReimburseSave(q)
    \/ \E id \in ExpenseIds, body \in UpdateBodies : UpdateRead(id, body)
    \/ \E q \in reqs : UpdateSave(q)
    \/ \E id \in ExpenseIds : DeleteRead(id)
    \/ \E q \in reqs : DeleteSave(q)
    \/ CloseYearArchive
    \/ \E q \in reqs : CloseYearMark(q)

Spec == Init /\ [][Next]_vars

----------------------------------------------------------------------------
(* The year roll-over: the expense handlers with startNewYear and a moving clock *)

\* POST /api/archive/start-new-year: the 400 without newYear; Archive.create of the new
\* year's entry with status active fails on the unique index when the year has an entry
StartNewYear(newYear) ==
    IF newYear = NoYear THEN Answer("NewYearRequired")
    ELSE IF archives[newYear] # "none" THEN Answer("Failure")
    ELSE /\ archives' = [archives EXCEPT ![newYear] = "active"]
         /\ resp' = "OK"
         /\ UNCHANGED <<expenses, nextId, settings, users, events, now, reqs, okLog>>

\* a month passes
Tick ==
    /\ now < StartDate + MaxMonths
    /\ now' = now + 1
    /\ UNCHANGED <<expenses, nextId, archives, settings, users, events, reqs, resp, okLog>>

\* a complete body of a new expense
YearCreateBody ==
    [NoBody EXCEPT !.member = "m1", !.event = "e1", !.amount = 1, !.keys = {"amount"}]

\* update bodies that carry a year label
YearUpdateBodies ==
    {[NoBody EXCEPT !.amount = 2, !.rotaractYear = y, !.keys = k] :
        y \in FiscalYears, k \in {{"rotaractYear"}, {"amount", "rotaractYear"}}}

NextYear ==
    \/ CreateRead("m1", [YearCreateBody EXCEPT !.member = Null])
    \/ \E q \in reqs : CreateInsert(q)
    \/ ManualRead(Treasurer, YearCreateBody)
    \/ \E q \in reqs : ManualInsert(q)
    \/ \E id \in ExpenseIds : ApproveRead(Treasurer, id)
    \/ \E q \in reqs : ApproveSave(q)
    \/ \E id \in ExpenseIds : RejectRead(Treasurer, id, "dup")
    \/ \E q \in reqs : RejectSave(q)
    \/ \E id \in ExpenseIds : ReimburseRead(Treasurer, id, "UTR123")
    \/ \E q \in reqs : ReimburseSave(q)
    \/ \E id \in ExpenseIds, body \in YearUpdateBodies : UpdateRead(id, body)
    \/ \E q \in reqs : UpdateSave(q)
    \/ CloseYearArchive
    \/ \E q \in reqs : CloseYearMark(q)
    \/ \E newYear \in FiscalYears \cup {NoYear} : StartNewYear(newYear)
    \/ Tick

SpecYear == Init /\ [][NextYear]_vars

----------------------------------------------------------------------------
(* Amounts: the three requests that carry an amount, with any amount or none *)

AnyAmounts == {-1, 0, 1, 2}

\* bodies with any amount, and bodies without one
AmountBodies ==
    {[YearCreateBody EXCEPT !.amount = a] : a \in AnyAmounts}
    \cup {[YearCreateBody EXCEPT !.amount = 0, !.keys = {}]}

AmountUpdateBodies ==
    {[NoBody EXCEPT !.amount = a, !.keys = {"amount"}] : a \in AnyAmounts} \cup {NoBody}

NextAmount ==
    \/ \E body \in AmountBodies : CreateRead("m1", [body EXCEPT !.member = Null])
    \/ \E q \in reqs : CreateInsert(q)
    \/ \E body \in AmountBodies : ManualRead(Treasurer, body)
    \/ \E q \in reqs : ManualInsert(q)
    \/ \E id \in ExpenseIds, body \in AmountUpdateBodies : UpdateRead(id, body)
    \/ \E q \in reqs : UpdateSave(q)

SpecAmount == Init /\ [][NextAmount]_vars

----------------------------------------------------------------------------
(* deleteEvent and deleteMember, with the two requests that create expenses *)

\* Expense.countDocuments({event}) and Expense.countDocuments({member})
EventExpenseCount(event) == Cardinality({id \in DOMAIN expenses : expenses[id].event = event})
MemberExpenseCount(member) == Cardinality({id \in DOMAIN expenses : expenses[id].member = member})

\* DELETE /api/events/:id: Event.findById and the 404
DeleteEventRead(event) ==
    IF event \notin DOMAIN events THEN Answer("NotFound")
    ELSE Await([Request("deleteEvent", 0, Null) EXCEPT !.body = [NoBody EXCEPT !.event = event]])

\* the dependent-expenses check: the 400, or on to the delete
DeleteEventCount(q) ==
    /\ q \in reqs /\ q.op = "deleteEvent" /\ q.arg = Null
    /\ IF EventExpenseCount(q.body.event) > 0
       THEN Finish(q, "HasExpenses")
       ELSE reqs' = (reqs \ {q}) \cup {[q EXCEPT !.arg = "counted"]} /\ UNCHANGED resp
    /\ UNCHANGED <<store, okLog>>

\* event.deleteOne() and the 200 response
DeleteEventSave(q) ==
    /\ q \in reqs /\ q.op = "deleteEvent" /\ q.arg = "counted"
    /\ events' = [e \in DOMAIN events \ {q.body.event} |-> events[e]]
    /\ Finish(q, "OK")
    /\ UNCHANGED <<expenses, nextId, archives, settings, users, now, okLog>>

\* DELETE /api/admin/members/:id: User.findById and the 404
DeleteMemberRead(member) ==
    IF member \notin DOMAIN users THEN Answer("NotFound")
    ELSE Await([Request("deleteMember", 0, Null) EXCEPT !.body = [NoBody EXCEPT !.member = member]])

\* the dependent-expenses check: the 400, or on to the delete
DeleteMemberCount(q) ==
    /\ q \in reqs /\ q.op = "deleteMember" /\ q.arg = Null
    /\ IF MemberExpenseCount(q.body.member) > 0
       THEN Finish(q, "HasExpenses")
       ELSE reqs' = (reqs \ {q}) \cup {[q EXCEPT !.arg = "counted"]} /\ UNCHANGED resp
    /\ UNCHANGED <<store, okLog>>

\* member.deleteOne() and the 200 response
DeleteMemberSave(q) ==
    /\ q \in reqs /\ q.op = "deleteMember" /\ q.arg = "counted"
    /\ users' = [u \in DOMAIN users \ {q.body.member} |-> users[u]]
    /\ Finish(q, "OK")
    /\ UNCHANGED <<expenses, nextId, archives, settings, events, now, okLog>>

NextRefs ==
    \/ \E user \in Members \cap DOMAIN users : CreateRead(user, [YearCreateBody EXCEPT !.member = Null])
    \/ \E q \in reqs : CreateInsert(q)
    \/ ManualRead(Treasurer, YearCreateBody)
    \/ \E q \in reqs : ManualInsert(q)
    \/ \E event \in EventIds : DeleteEventRead(event)
    \/ \E q \in reqs : DeleteEventCount(q)
    \/ \E q \in reqs : DeleteEventSave(q)
    \/ \E member \in Members : DeleteMemberRead(member)
    \/ \E q \in reqs : DeleteMemberCount(q)
    \/ \E q \in reqs : DeleteMemberSave(q)

SpecRefs == Init /\ [][NextRefs]_vars

\* the transitions of an expense whose member or event may be deleted meanwhile
NextFailure ==
    \/ NextRefs
    \/ \E user \in Approvers, id \in ExpenseIds : ApproveRead(user, id)
    \/ \E q \in reqs : ApproveSave(q)
    \/ \E id \in ExpenseIds : RejectRead(Treasurer, id, "dup")
    \/ \E q \in reqs : RejectSave(q)
    \/ \E id \in ExpenseIds : ReimburseRead(Treasurer, id, "UTR123")
    \/ \E q \in reqs : ReimburseSave(q)

SpecFailure == Init /\ [][NextFailure]_vars

----------------------------------------------------------------------------
(* The transitions with failing side effects *)

\* a side effect of a transition in flight is going to fail: AuditLog.create rejects, or
\* io.to(...).emit throws
Fault(q, f) ==
    /\ q \in reqs /\ q.op \in {"approve", "reject", "reimburse"}
    /\ f \notin q.faults
    /\ [q EXCEPT !.faults = @ \cup {f}] \notin reqs
    /\ reqs' = (reqs \ {q}) \cup {[q EXCEPT !.faults = @ \cup {f}]}
    /\ UNCHANGED <<store, resp, okLog>>

NextAudit ==
    \/ CreateRead("m1", [YearCreateBody EXCEPT !.member = Null])
    \/ \E q \in reqs : CreateInsert(q)
    \/ \E id \in ExpenseIds : ApproveRead(Treasurer, id)
    \/ \E q \in reqs : ApproveSave(q)
    \/ \E id \in ExpenseIds : RejectRead(Treasurer, id, "dup")
    \/ \E q \in reqs : RejectSave(q)
    \/ \E id \in ExpenseIds : ReimburseRead(Treasurer, id, "UTR123")
    \/ \E q \in reqs : ReimburseSave(q)
    \/ \E q \in reqs, f \in Faults : Fault(q, f)

SpecAudit == Init /\ [][NextAudit]_vars

----------------------------------------------------------------------------
(* The reports: aggregation pipelines over the Expense collection *)

\* { $match: { rotaractYear: year } }: the ids of the matching documents
Match(coll, year) == {id \in DOMAIN coll : coll[id].rotaractYear = year}

\* the statuses that count as a contribution
Contributing == {"approved", "reimbursed", "paid"}

\* { $match: { rotaractYear: year, status: { $in: [...] } } }
MatchContributing(coll, year) == {id \in Match(coll, year) : coll[id].status \in Contributing}

\* { $sum: "$amount" } over the documents ids
RECURSIVE SumAmounts(_, _)
SumAmounts(coll, ids) ==
    IF ids = {} THEN 0
    ELSE LET id == CHOOSE i \in ids : TRUE
         IN  coll[id].amount + SumAmounts(coll, ids \ {id})

\* a $group that puts the documents of other fiscal years in as well
GroupAnyYear(coll, ids, field) ==
    {[_id |-> k,
      total |-> SumAmounts(coll, {id \in DOMAIN coll : coll[id][field] = k}),
      count |-> Cardinality({id \in DOMAIN coll : coll[id][field] = k})] :
        k \in {coll[id][field] : id \in ids}}

\* { $group: { _id: "$field", total: { $sum: "$amount" }, count: { $sum: 1 } } }: one
\* output document per value of the field among the input documents
Group(coll, ids, field) ==
    {[_id |-> k,
      total |-> SumAmounts(coll, {id \in ids : coll[id][field] = k}),
      count |-> Cardinality({id \in ids : coll[id][field] = k})] :
        k \in {coll[id][field] : id \in ids}}

\* { $month: "$date" }, 1 to 12, and { $year: "$date" }
Month(date) == (date % 12) + 1
Year(date) == date \div 12

\* getFinancialSummary, by month:
\* { $group: { _id: { month: { $month: "$date" }, year: { $year: "$date" } }, ... } }
GroupByMonth(coll, ids) ==
    {[_id |-> [month |-> Month(d), year |-> Year(d)],
      total |-> SumAmounts(coll, {id \in ids : coll[id].date = d}),
      count |-> Cardinality({id \in ids : coll[id].date = d})] :
        d \in {coll[id].date : id \in ids}}

\* { $sort: { "_id.year": 1, "_id.month": 1 } }: the keys of the groups are distinct
RECURSIVE SortByYearMonth(_)
SortByYearMonth(groups) ==
    IF groups = {} THEN << >>
    ELSE LET Key(g) == g._id.year * 12 + g._id.month
             first == CHOOSE g \in groups : \A h \in groups : Key(g) <= Key(h)
         IN  <<first>> \o SortByYearMonth(groups \ {first})

\* getDashboard, monthly trend: { $group: { _id: { $month: "$date" }, ... } }
GroupByMonthNumber(coll, ids) ==
    {[_id |-> m,
      total |-> SumAmounts(coll, {id \in ids : Month(coll[id].date) = m}),
      count |-> Cardinality({id \in ids : Month(coll[id].date) = m})] :
        m \in {Month(coll[id].date) : id \in ids}}

\* { $sort: { _id: 1 } }
RECURSIVE SortById(_)
SortById(groups) ==
    IF groups = {} THEN << >>
    ELSE LET first == CHOOSE g \in groups : \A h \in groups : g._id <= h._id
         IN  <<first>> \o SortById(groups \ {first})

\* { $sort: { total: -1 } }: every order of the groups by total descending. The pipeline
\* names no second sort key, so groups with equal totals come out in any order.
RECURSIVE SortByTotal(_)
SortByTotal(groups) ==
    IF groups = {} THEN {<< >>}
    ELSE UNION {{<<g>> \o rest : rest \in SortByTotal(groups \ {g})} :
                    g \in {g \in groups : \A h \in groups : g.total >= h.total}}

\* the $limit of the top contributors and of the leaderboard
TopContributorsLimit == 10
LeaderboardLimit == 20

\* { $limit: n }
Limit(seq, n) == SubSeq(seq, 1, IF Len(seq) < n THEN Len(seq) ELSE n)

\* { $lookup } into the collection of the referenced documents, then { $unwind }: a group
\* whose referenced document does not exist has an empty lookup array and is dropped
LookupUnwind(seq, docs) ==
    LET Found(g) == g._id \in docs
    IN  SelectSeq(seq, Found)

\* the total of the group of a status: expensesByStatus.find(...)?.total || 0
TotalOf(groups, status) ==
    IF \E g \in groups : g._id = status
    THEN (CHOOSE g \in groups : g._id = status).total
    ELSE 0

\* a grand total that adds up the four status totals the summary names
totalExpensesNamed(groups) ==
    TotalOf(groups, "approved") + TotalOf(groups, "pending") + TotalOf(groups, "rejected")
    + TotalOf(groups, "reimbursed")

\* totals.totalExpenses: expensesByStatus.reduce((sum, item) => sum + item.total, 0)
RECURSIVE totalExpenses(_)
totalExpenses(groups) ==
    IF groups = {} THEN 0
    ELSE LET g == CHOOSE x \in groups : TRUE
         IN  g.total + totalExpenses(groups \ {g})

\* getFinancialSummary: totals
Totals(byStatus) ==
    [ totalExpenses |-> totalExpenses(byStatus),
      totalApproved |-> TotalOf(byStatus, "approved"),
      totalPending |-> TotalOf(byStatus, "pending"),
      totalRejected |-> TotalOf(byStatus, "rejected"),
      totalReimbursed |-> TotalOf(byStatus, "reimbursed") ]

\* const year = rotaractYear || getFinancialYear()
ReportYear(rotaractYear) == IF rotaractYear = NoYear THEN getFinancialYear(now) ELSE rotaractYear

NoReport == [report |-> "none"]

\* GET /api/reports/financial-summary. expensesByStatus has no $sort: it is kept as the
\* set of its groups.
GetFinancialSummary(rotaractYear) ==
    LET year == ReportYear(rotaractYear)
        ids == Match(expenses, year)
        byStatus == Group(expenses, ids, "status")
    IN  /\ \E byCategory \in SortByTotal(Group(expenses, ids, "category")),
              byEvent \in SortByTotal(Group(expenses, ids, "event")),
              byMember \in SortByTotal(Group(expenses, MatchContributing(expenses, year),
                                             "member")) :
              resp' = [ report |-> "summary",
                        rotaractYear |-> year,
                        totals |-> Totals(byStatus),
                        expensesByCategory |-> byCategory,
                        expensesByStatus |-> byStatus,
                        expensesByMonth |-> SortByYearMonth(GroupByMonth(expenses, ids)),
                        expensesByEvent |-> LookupUnwind(Limit(byEvent, 10), DOMAIN events),
                        topContributors |->
                            LookupUnwind(Limit(byMember, TopContributorsLimit), DOMAIN users) ]
        /\ UNCHANGED <<store, reqs, okLog>>

\* getMemberWiseReport: the output document of a group
MemberRow(coll, ids, g) ==
    [ _id |-> g._id, totalAmount |-> g.total, expenseCount |-> g.count,
      approvedAmount |->
          SumAmounts(coll, {id \in ids : coll[id].member = g._id
                                         /\ coll[id].status \in Contributing}),
      pendingAmount |->
          SumAmounts(coll, {id \in ids : coll[id].member = g._id /\ coll[id].status = "pending"}),
      rejectedAmount |->
          SumAmounts(coll, {id \in ids : coll[id].member = g._id /\ coll[id].status = "rejected"}) ]

\* GET /api/reports/member-wise
GetMemberWiseReport(rotaractYear) ==
    LET year == ReportYear(rotaractYear)
        ids == Match(expenses, year)
    IN  /\ \E byMember \in SortByTotal(Group(expenses, ids, "member")) :
              LET found == LookupUnwind(byMember, DOMAIN users)
              IN  resp' = [ report |-> "member-wise",
                            rotaractYear |-> year,
                            members |-> [i \in 1 .. Len(found) |->
                                            MemberRow(expenses, ids, found[i])] ]
        /\ UNCHANGED <<store, reqs, okLog>>

\* an expense as addManualExpense stores it
ReportDoc(member, category, amount, status, date) ==
    [NewManualExpense([YearCreateBody EXCEPT !.member = member, !.amount = amount,
                                             !.status = status],
                      Treasurer, date)
        EXCEPT !.category = category]

\* the collections of at most MaxDocs documents out of docs
Collections(docs) == UNION {[1 .. n -> docs] : n \in 0 .. MaxDocs}

\* the state in which a report runs on the collection coll
InitReport(coll) ==
    /\ expenses = coll
    /\ nextId = Len(coll) + 1
    /\ archives = [y \in FiscalYears |-> "none"]
    /\ settings = <<SettingsDefaults>>
    /\ users = Club(UserIds)
    /\ events = Planned(EventIds)
    /\ now \in Dates
    /\ reqs = {}
    /\ resp = NoReport
    /\ okLog = [id \in ExpenseIds |-> {}]

\* req.query.rotaractYear: a year label, or none
QueryYears == FiscalYears \cup {NoYear}

----------------------------------------------------------------------------
(* The financial summary on expenses of every status *)

StatusDocs ==
    {ReportDoc("m1", "donation", amount, status, date) :
        amount \in {1, 2}, status \in Statuses, date \in Dates}

InitByStatus == \E coll \in Collections(StatusDocs) : InitReport(coll)

NextByStatus == \E rotaractYear \in QueryYears : GetFinancialSummary(rotaractYear)

SpecByStatus == InitByStatus /\ [][NextByStatus]_vars

----------------------------------------------------------------------------
(* The rollups by category and by member *)

Categories == {"donation", "travel_expense"}

CategoryDocs ==
    {ReportDoc(member, category, amount, "approved", date) :
        member \in {"m1", "p1"}, category \in Categories, amount \in {25, 50, 100},
        date \in Dates}

InitByCategory == \E coll \in Collections(CategoryDocs) : InitReport(coll)

NextByCategory ==
    \/ \E rotaractYear \in QueryYears : GetFinancialSummary(rotaractYear)
    \/ \E rotaractYear \in QueryYears : GetMemberWiseReport(rotaractYear)

SpecByCategory == InitByCategory /\ [][NextByCategory]_vars

----------------------------------------------------------------------------
(* The top contributors and the leaderboard *)

\* getLeaderboard: the output document of a group, with its rank
LeaderboardRow(coll, ids, g, index) ==
    [ rank |-> index, _id |-> g._id, totalContribution |-> g.total, expenseCount |-> g.count,
      eventsCount |-> Cardinality({coll[id].event : id \in {i \in ids : coll[i].member = g._id}}) ]

\* GET /api/reports/leaderboard
GetLeaderboard(rotaractYear) ==
    LET year == ReportYear(rotaractYear)
        ids == MatchContributing(expenses, year)
    IN  /\ \E byMember \in SortByTotal(Group(expenses, ids, "member")) :
              LET found == LookupUnwind(Limit(byMember, LeaderboardLimit), DOMAIN users)
              IN  resp' = [ report |-> "leaderboard",
                            rotaractYear |-> year,
                            leaderboard |-> [i \in 1 .. Len(found) |->
                                                LeaderboardRow(expenses, ids, found[i], i)] ]
        /\ UNCHANGED <<store, reqs, okLog>>

\* the members of a club large enough to exceed both limits
TopMemberIds ==
    << "u01", "u02", "u03", "u04", "u05", "u06", "u07", "u08", "u09", "u10", "u11",
       "u12", "u13", "u14", "u15", "u16", "u17", "u18", "u19", "u20", "u21", "u22" >>

\* the numbers of members with expenses: around the two limits
TopSizes == {9, 10, 11, 12, 20, 21, 22}

\* The collection of the club of n members: member i has one expense, of amount
\* ((i * k) % 23) + 1 (different for different members, in an order that depends on k);
\* the expense of member `idle` (if any) is still pending; member 2 has a second expense;
\* with k = 3 every sixth expense falls into the next fiscal year.
TopCollection(n, k, idle) ==
    [i \in 1 .. (n + 1) |->
        IF i = n + 1
        THEN ReportDoc(TopMemberIds[2], "donation", 3, "reimbursed", StartDate)
        ELSE ReportDoc(TopMemberIds[i], "donation", ((i * k) % 23) + 1,
                       IF i = idle THEN "pending" ELSE IF i % 2 = 0 THEN "approved" ELSE "paid",
                       IF k = 3 /\ i % 6 = 0 THEN StartDate + MaxMonths ELSE StartDate)]

\* A report on a large club. gone: a member whose User document has been deleted although
\* an expense refers to it (deleteMember racing with the creation of the expense).
InitTop ==
    \E n \in TopSizes, k \in 1 .. 3, idle \in {0, 1, 4}, gone \in {0, 7} :
        /\ expenses = TopCollection(n, k, idle)
        /\ nextId = n + 2
        /\ archives = [y \in FiscalYears |-> "none"]
        /\ settings = <<SettingsDefaults>>
        /\ users = Club(UserIds \cup {TopMemberIds[i] : i \in (1 .. n) \ {gone}})
        /\ events = Planned(EventIds)
        /\ now \in Dates
        /\ reqs = {}
        /\ resp = NoReport
        /\ okLog = [id \in ExpenseIds |-> {}]

NextTop ==
    \/ \E rotaractYear \in QueryYears : GetFinancialSummary(rotaractYear)
    \/ \E rotaractYear \in QueryYears : GetLeaderboard(rotaractYear)

SpecTop == InitTop /\ [][NextTop]_vars

----------------------------------------------------------------------------
(* The rollups by month: the financial summary and the admin dashboard *)

\* GET /api/admin/dashboard: the aggregations over the expenses of the current year. (The
\* member and event counts and the recent expenses of the response are left out.)
GetDashboard ==
    LET currentYear == getFinancialYear(now)
        ids == Match(expenses, currentYear)
    IN  /\ \E byCategory \in SortByTotal(Group(expenses, ids, "category")) :
              resp' = [ report |-> "dashboard",
                        rotaractYear |-> currentYear,
                        expensesSummary |-> Group(expenses, ids, "status"),
                        monthlyExpenses |-> SortById(GroupByMonthNumber(expenses, ids)),
                        expensesByCategory |-> byCategory ]
        /\ UNCHANGED <<store, reqs, okLog>>

\* req.body.date of the expenses: July 2025, January 2026, July 2026
MonthDates == {2025 * 12 + 6, 2026 * 12, 2026 * 12 + 6}

\* expenses created in either fiscal year, with the date their body gave
MonthDocs ==
    {[ReportDoc("m1", "donation", amount, "approved", created) EXCEPT !.date = date] :
        amount \in {1, 2}, created \in Dates, date \in MonthDates}

InitByMonth == \E coll \in Collections(MonthDocs) : InitReport(coll)

NextByMonth ==
    \/ \E rotaractYear \in QueryYears : GetFinancialSummary(rotaractYear)
    \/ GetDashboard

SpecByMonth == InitByMonth /\ [][NextByMonth]_vars

----------------------------------------------------------------------------
(* Properties of the approval state machine *)

Stored == DOMAIN expenses
Kept == DOMAIN expenses \cap DOMAIN expenses'

LegalTransitions ==
    {<<"pending", "approved">>, <<"pending", "rejected">>, <<"approved", "reimbursed">>}

HasApproval(doc) == doc.approvedBy # Null \/ doc.approvedAt # NullDate
HasRejection(doc) ==
    doc.rejectedBy # Null \/ doc.rejectedAt # NullDate \/ doc.rejectionReason # Null
HasReimbursement(doc) ==
    doc.reimbursedBy # Null \/ doc.reimbursedAt # NullDate \/ doc.reimbursementReference # Null

\* the callers whose request `op` on expense id was answered with success
Winners(op, id) == {u \in UserIds : \E f \in SUBSET Faults : <<op, u, f>> \in okLog[id]}

\* C1: the stored status of an expense changes only along pending -> approved,
\* pending -> rejected and approved -> reimbursed; no other status change succeeds.
C1_OnlyLegalTransitions ==
    [][\A id \in Kept :
          expenses'[id].status # expenses[id].status
          => <<expenses[id].status, expenses'[id].status>> \in LegalTransitions]_vars

\* C2: of the approve requests on one expense at most one is answered with success, and
\* the approver of an approved expense is the caller of that request.
C2_OneApprovalWins ==
    \A id \in ExpenseIds :
        /\ Cardinality(Winners("approve", id)) <= 1
        /\ (id \in Stored /\ ~expenses[id].manual /\ expenses[id].approvedBy # Null)
           => Winners("approve", id) = {expenses[id].approvedBy}

\* C3: an approve and a reject request on one expense are never both answered with
\* success, and a submitted expense never carries approval and rejection fields together.
C3_ApproveXorReject ==
    \A id \in ExpenseIds :
        /\ Winners("approve", id) = {} \/ Winners("reject", id) = {}
        /\ (id \in Stored /\ ~expenses[id].manual)
           => ~(HasApproval(expenses[id]) /\ HasRejection(expenses[id]))

\* C4: status never moves backward: rejected, reimbursed and paid are kept for ever, and
\* an approved expense never becomes pending or rejected.
C4_NeverBackward ==
    [][\A id \in Kept :
          /\ expenses[id].status \in {"rejected", "reimbursed", "paid"}
             => expenses'[id].status = expenses[id].status
          /\ expenses[id].status = "approved"
             => expenses'[id].status \notin {"pending", "rejected"}]_vars

\* C5: an approve or a reject request (one that carries a reason) on an expense that is
\* not pending, and a reimburse request on an expense that is not approved, is answered
\* with the invalid-transition error of its handler, and writes nothing.
C5_IllegalTransitionRefused ==
    [][\A id \in Stored :
          /\ \A user \in Approvers :
                (ApproveRead(user, id) /\ expenses[id].status # "pending")
                => (resp' = "CannotApprove" /\ UNCHANGED <<expenses, reqs>>)
          /\ (RejectRead(Treasurer, id, "dup") /\ expenses[id].status # "pending")
             => (resp' = "CannotReject" /\ UNCHANGED <<expenses, reqs>>)
          /\ \A reference \in References :
                (ReimburseRead(Treasurer, id, reference) /\ expenses[id].status # "approved")
                => (resp' = "CannotReimburse" /\ UNCHANGED <<expenses, reqs>>)]_vars

\* C5 witness: an approve request on a reimbursed expense has been refused.
C5_Witness ==
    /\ resp = "CannotApprove"
    /\ \E id \in Stored : expenses[id].status = "reimbursed"

\* C6: a reject request whose reason is missing or empty is answered with the validation
\* error, whether the expense exists or not and whatever its status, and writes nothing.
C6_ReasonRequired ==
    [][\A id \in ExpenseIds, reason \in {Null, ""} :
          RejectRead(Treasurer, id, reason)
          => (resp' = "ReasonRequired" /\ UNCHANGED <<expenses, reqs>>)]_vars

\* C6 witness: a reject request without a reason on an approved expense has been refused.
C6_Witness ==
    /\ resp = "ReasonRequired"
    /\ \E id \in Stored : expenses[id].status = "approved" /\ ~HasRejection(expenses[id])

\* C7: createExpense stores a pending expense with no approver, rejector or reimburser,
\* whatever status the body carries; a successful approve leaves it approved with the
\* caller as approvedBy; a successful reimburse leaves it reimbursed with the given
\* reference; a reject request on a reimbursed expense is refused and writes nothing.
C7_Lifecycle ==
    [][/\ \A q \in reqs :
            (CreateInsert(q) /\ resp' = "OK")
            => /\ expenses'[nextId].status = "pending"
               /\ ~HasApproval(expenses'[nextId])
               /\ ~HasRejection(expenses'[nextId])
               /\ ~HasReimbursement(expenses'[nextId])
       /\ \A q \in reqs :
            (ApproveSave(q) /\ resp' = "OK")
            => /\ expenses'[q.id].status = "approved"
               /\ expenses'[q.id].approvedBy = q.user
       /\ \A q \in reqs :
            (ReimburseSave(q) /\ resp' = "OK")
            => /\ expenses'[q.id].status = "reimbursed"
               /\ expenses'[q.id].reimbursementReference = q.arg
       /\ \A id \in Stored :
            (RejectRead(Treasurer, id, "dup") /\ expenses[id].status = "reimbursed")
            => (resp' = "CannotReject" /\ UNCHANGED <<expenses, reqs>>)]_vars

\* C7 witness: a submitted expense was approved, reimbursed with reference UTR123, and a
\* reject request on it has been refused.
C7_Witness ==
    /\ resp = "CannotReject"
    /\ \E id \in Stored :
          /\ ~expenses[id].manual
          /\ expenses[id].status = "reimbursed"
          /\ expenses[id].reimbursementReference = "UTR123"
          /\ expenses[id].approvedBy # Null
          /\ okLog[id] = {<<"approve", expenses[id].approvedBy, {}>>,
                          <<"reimburse", Treasurer, {}>>}

\* C8: approvedBy is set iff approvedAt is, rejectedBy iff rejectedAt and rejectionReason
\* are, reimbursedBy iff reimbursedAt is, in every stored expense.
C8_FieldsSetTogether ==
    \A id \in Stored :
        LET doc == expenses[id]
        IN  /\ (doc.approvedBy # Null) <=> (doc.approvedAt # NullDate)
            /\ (doc.rejectedBy # Null) <=> (doc.rejectedAt # NullDate)
            /\ (doc.rejectedBy # Null) <=> (doc.rejectionReason # Null)
            /\ (doc.reimbursedBy # Null) <=> (doc.reimbursedAt # NullDate)

\* C8 witness: an expense that went through approve, reject and reimburse writes.
C8_Witness ==
    \E id \in Stored :
        /\ expenses[id].approvedBy # Null
        /\ expenses[id].rejectedBy # Null
        /\ expenses[id].reimbursedBy # Null

\* C9: a pending or rejected expense has no approval fields, rejection fields are present
\* only when the status is rejected, reimbursement fields only when it is reimbursed.
C9_MetadataMatchesStatus ==
    \A id \in Stored :
        LET doc == expenses[id]
        IN  /\ doc.status \in {"pending", "rejected"} => ~HasApproval(doc)
            /\ HasRejection(doc) => doc.status = "rejected"
            /\ HasReimbursement(doc) => doc.status = "reimbursed"

\* a closeYear request for the year has been answered with success
YearClosed(year) ==
    /\ archives[year] = "archived"
    /\ \A q \in reqs : ~(q.op = "closeYear" /\ q.year = year)

\* C10: once closeYear has archived a year, no request changes or removes an expense
\* of that year.
C10_ArchivedReadOnly ==
    [][\A id \in Stored :
          YearClosed(expenses[id].rotaractYear)
          => (id \in DOMAIN expenses' /\ expenses'[id] = expenses[id])]_vars

----------------------------------------------------------------------------
(* Properties of the year close *)

\* C11: every expense of a year that closeYear has archived has isArchived = TRUE, the
\* expenses created after the close included.
C11_ArchivedFlagFollowsClose ==
    \A id \in Stored :
        YearClosed(expenses[id].rotaractYear) => expenses[id].isArchived

\* C12: no step changes the rotaractYear of a stored expense, and closeYear's updateMany
\* changes no field of an expense other than isArchived.
C12_YearLabelFixed ==
    [][/\ \A id \in Kept : expenses'[id].rotaractYear = expenses[id].rotaractYear
       /\ \A q \in reqs :
             CloseYearMark(q)
             => \A id \in Stored :
                   expenses'[id] = [expenses[id] EXCEPT !.isArchived = expenses'[id].isArchived]]_vars

\* C12 witness: an expense of a closed year that was approved, updated with a body naming
\* another year, and archived, after the clock has moved into the next year and
\* startNewYear has opened it.
C12_Witness ==
    /\ resp = "OK"
    /\ archives[getFinancialYear(now)] = "active"
    /\ \E id \in Stored :
          /\ expenses[id].rotaractYear # getFinancialYear(now)
          /\ YearClosed(expenses[id].rotaractYear)
          /\ expenses[id].isArchived
          /\ expenses[id].status = "approved"
          /\ expenses[id].amount = 2

----------------------------------------------------------------------------
(* Properties of the amount *)

\* the body has no amount, or one below 1
NoPositiveAmount(body) == "amount" \notin body.keys \/ body.amount < 1

\* C13: every stored expense has amount >= 1; a createExpense or addManualExpense request
\* without a positive amount, and an updateExpense request with a non-positive one, is
\* answered with an error and stores or changes nothing.
C13_AmountPositive ==
    [][/\ \A id \in DOMAIN expenses' : expenses'[id].amount >= 1
       /\ \A body \in AmountBodies :
             (NoPositiveAmount(body) /\ CreateRead("m1", [body EXCEPT !.member = Null]))
             => (resp' = "ValidationError" /\ UNCHANGED <<expenses, reqs>>)
       /\ \A body \in AmountUpdateBodies, id \in ExpenseIds :
             ("amount" \in body.keys /\ body.amount < 1 /\ UpdateRead(id, body))
             => (resp' = "ValidationError" /\ UNCHANGED <<expenses, reqs>>)
       /\ \A q \in reqs :
             (q.op = "manual" /\ NoPositiveAmount(q.body) /\ ManualInsert(q))
             => (resp' = "Failure" /\ UNCHANGED expenses)
       /\ \A body \in AmountBodies :
             (NoPositiveAmount(body) /\ ManualRead(Treasurer, body))
             => (resp' \in {"MissingFields", resp} /\ UNCHANGED expenses)]_vars

\* C13 witness: an expense whose amount was updated to 2, after which a request with a
\* non-positive amount was refused by the validation.
C13_Witness ==
    /\ resp = "ValidationError"
    /\ reqs = {}
    /\ \E id \in Stored : expenses[id].amount = 2

----------------------------------------------------------------------------
(* Properties of the status paid *)

\* C14: no request turns a stored expense into status paid; an expense is paid only if
\* addManualExpense created it from a body whose status is paid.
C14_PaidOnlyManual ==
    [][/\ \A id \in Kept :
             expenses'[id].status = "paid" => expenses[id].status = "paid"
       /\ \A id \in DOMAIN expenses' \ Stored :
             expenses'[id].status = "paid"
             => /\ expenses'[id].manual
                /\ \E q \in reqs : ManualInsert(q) /\ q.body.status = "paid"
       /\ \A id \in DOMAIN expenses' : expenses'[id].status = "paid" => expenses'[id].manual]_vars

\* C14 witness: a reimburse request on a paid expense has been refused.
C14_Witness ==
    /\ resp = "CannotReimburse"
    /\ \E id \in Stored : expenses[id].status = "paid" /\ expenses[id].manual

----------------------------------------------------------------------------
(* Properties of the references *)

\* C15: the member and the event of every stored expense exist.
C15_ReferencesExist ==
    \A id \in Stored : expenses[id].member \in DOMAIN users /\ expenses[id].event \in DOMAIN events

----------------------------------------------------------------------------
(* Properties of the side effects *)

\* C16: when the audit entry or the notification of an approve, reject or reimburse fails,
\* the save of the transition is kept and the caller gets the response it would have got
\* without the failure: success.
C16_SideEffectsBestEffort ==
    [][\A q \in reqs :
          (q.faults # {} /\ q.id \in Stored)
          => /\ (ApproveSave(q) /\ q.populated)
                => /\ resp' = "OK"
                   /\ expenses'[q.id] = ApproveWrite(expenses[q.id], q.user, now)
                   /\ <<q.op, q.user, q.faults>> \in okLog'[q.id]
             /\ (RejectSave(q) /\ q.populated)
                => /\ resp' = "OK"
                   /\ expenses'[q.id] = RejectWrite(expenses[q.id], q.user, now, q.arg)
                   /\ <<q.op, q.user, q.faults>> \in okLog'[q.id]
             /\ ReimburseSave(q)
                => /\ resp' = "OK"
                   /\ expenses'[q.id] = ReimburseWrite(expenses[q.id], q.user, now, q.arg)
                   /\ <<q.op, q.user, q.faults>> \in okLog'[q.id]]_vars

\* C16 witness: an expense approved and reimbursed, both answered with success, although
\* the audit entry of the approval and the audit entry and the notification of the
\* reimbursement failed.
C16_Witness ==
    /\ resp = "OK"
    /\ \E id \in Stored :
          /\ expenses[id].status = "reimbursed"
          /\ <<"approve", Treasurer, {"audit"}>> \in okLog[id]
          /\ <<"reimburse", Treasurer, Faults>> \in okLog[id]

----------------------------------------------------------------------------
(* Properties of the reports *)

\* C17: totals.totalExpenses of the financial summary is the sum of the amounts of all
\* the expenses of the fiscal year, each counted once whatever its status.
C17_StatusRollupSumsToTotal ==
    resp.report = "summary"
    => resp.totals.totalExpenses = SumAmounts(expenses, Match(expenses, resp.rotaractYear))

\* C17 witness: a summary of a year with two paid expenses of amount 2, next to an
\* expense of another year.
C17_Witness ==
    /\ resp.report = "summary"
    /\ resp.totals.totalExpenses = 4
    /\ \E a, b \in Match(expenses, resp.rotaractYear) :
          a # b /\ expenses[a].status = "paid" /\ expenses[b].status = "paid"
    /\ DOMAIN expenses # Match(expenses, resp.rotaractYear)

\* C18: the rollup by category has, for each category with at least one expense of the
\* fiscal year, exactly one entry, with the sum and the number of those expenses; it has
\* no other entry, and it is empty when the year has no expense.
C18_CategoryRollup ==
    resp.report = "summary"
    => LET out == resp.expensesByCategory
           ids == Match(expenses, resp.rotaractYear)
           Of(c) == {id \in ids : expenses[id].category = c}
       IN  /\ \A c \in Categories :
                 Of(c) # {}
                 => /\ Cardinality({i \in DOMAIN out : out[i]._id = c}) = 1
                    /\ \A i \in DOMAIN out :
                          out[i]._id = c
                          => /\ out[i].total = SumAmounts(expenses, Of(c))
                             /\ out[i].count = Cardinality(Of(c))
           /\ \A i \in DOMAIN out : Of(out[i]._id) # {}
           /\ ids = {} => out = << >>

\* C18 witness: the three expenses donation 100, travel_expense 50, donation 25 of one
\* year give donation 125 / 2 and travel_expense 50 / 1.
C18_Witness ==
    /\ resp.report = "summary"
    /\ Len(expenses) = 3
    /\ Match(expenses, resp.rotaractYear) = {1, 2, 3}
    /\ <<expenses[1].category, expenses[1].amount>> = <<"donation", 100>>
    /\ <<expenses[2].category, expenses[2].amount>> = <<"travel_expense", 50>>
    /\ <<expenses[3].category, expenses[3].amount>> = <<"donation", 25>>
    /\ resp.expensesByCategory = << [_id |-> "donation", total |-> 125, count |-> 2],
                                    [_id |-> "travel_expense", total |-> 50, count |-> 1] >>

\* the ascending order of the group keys
KeyRank == [k \in Categories \cup {"m1", "p1"} |-> IF k \in {"donation", "m1"} THEN 1 ELSE 2]

\* C20: the rollups by category and by member come out by total descending, and entries
\* with equal totals by group key ascending.
C20_RollupOrderDeterministic ==
    /\ resp.report = "summary"
       => \A i, j \in DOMAIN resp.expensesByCategory :
             i < j
             => LET a == resp.expensesByCategory[i]
                    b == resp.expensesByCategory[j]
                IN  a.total > b.total \/ (a.total = b.total /\ KeyRank[a._id] < KeyRank[b._id])
    /\ resp.report = "member-wise"
       => \A i, j \in DOMAIN resp.members :
             i < j
             => LET a == resp.members[i]
                    b == resp.members[j]
                IN  \/ a.totalAmount > b.totalAmount
                    \/ (a.totalAmount = b.totalAmount /\ KeyRank[a._id] < KeyRank[b._id])

\* the members with a contributing expense in the year, and their totals
Contributors(year) == {expenses[id].member : id \in MatchContributing(expenses, year)}
Contribution(year, member) ==
    SumAmounts(expenses, {id \in MatchContributing(expenses, year) : expenses[id].member = member})

\* entries of a top-n list: one per member, the member's contribution, by total descending,
\* n entries when more than n members contribute, and no member left out above an entry
TopList(year, n, members, totals) ==
    /\ Len(members) = Len(totals)
    /\ \A i \in DOMAIN members :
          members[i] \in Contributors(year) /\ totals[i] = Contribution(year, members[i])
    /\ \A i, j \in DOMAIN members : i < j => (members[i] # members[j] /\ totals[i] >= totals[j])
    /\ Len(members) = IF Cardinality(Contributors(year)) > n THEN n
                       ELSE Cardinality(Contributors(year))
    /\ \A m \in Contributors(year) :
          (\A i \in DOMAIN members : members[i] # m)
          => \A i \in DOMAIN totals : Contribution(year, m) <= totals[i]

\* C19: the top contributors of the summary are the 10, and the leaderboard the 20,
\* members with the largest totals over their approved, reimbursed and paid expenses of
\* the year, by total descending, and the leaderboard ranks are 1..N in output order.
C19_TopContributors ==
    /\ resp.report = "summary"
       => TopList(resp.rotaractYear, TopContributorsLimit,
                  [i \in DOMAIN resp.topContributors |-> resp.topContributors[i]._id],
                  [i \in DOMAIN resp.topContributors |-> resp.topContributors[i].total])
    /\ resp.report = "leaderboard"
       => /\ TopList(resp.rotaractYear, LeaderboardLimit,
                     [i \in DOMAIN resp.leaderboard |-> resp.leaderboard[i]._id],
                     [i \in DOMAIN resp.leaderboard |-> resp.leaderboard[i].totalContribution])
          /\ \A i \in DOMAIN resp.leaderboard : resp.leaderboard[i].rank = i

----------------------------------------------------------------------------
(* The event-wise report: an aggregation over the Event collection *)

\* a $project that holds the budget against the approved expenses only
EventRowApprovedOnly(id) ==
    LET ofEvent == {i \in DOMAIN expenses : expenses[i].event = id}
        approved == {i \in ofEvent : expenses[i].status \in Contributing}
    IN  [ _id |-> id,
          startDate |-> events[id].startDate,
          estimatedBudget |-> events[id].estimatedBudget,
          totalExpenses |-> SumAmounts(expenses, ofEvent),
          expenseCount |-> Cardinality(ofEvent),
          approvedExpenses |-> SumAmounts(expenses, approved),
          budgetVariance |-> events[id].estimatedBudget - SumAmounts(expenses, approved) ]

\* getEventWiseReport: { $lookup: { from: "expenses", localField: "_id", foreignField:
\* "event" } } and the $project of an event; the lookup takes the expenses of every
\* status and year
EventRow(id) ==
    LET ofEvent == {i \in DOMAIN expenses : expenses[i].event = id}
        approved == {i \in ofEvent : expenses[i].status \in Contributing}
    IN  [ _id |-> id,
          startDate |-> events[id].startDate,
          estimatedBudget |-> events[id].estimatedBudget,
          totalExpenses |-> SumAmounts(expenses, ofEvent),
          expenseCount |-> Cardinality(ofEvent),
          approvedExpenses |-> SumAmounts(expenses, approved),
          budgetVariance |-> events[id].estimatedBudget - SumAmounts(expenses, ofEvent) ]

\* { $sort: { startDate: -1 } }: every order of the rows by startDate descending
RECURSIVE SortByStartDate(_)
SortByStartDate(rows) ==
    IF rows = {} THEN {<< >>}
    ELSE UNION {{<<r>> \o rest : rest \in SortByStartDate(rows \ {r})} :
                    r \in {r \in rows : \A q \in rows : r.startDate >= q.startDate}}

\* GET /api/reports/event-wise
GetEventWiseReport(rotaractYear) ==
    LET year == ReportYear(rotaractYear)
        ids == {id \in DOMAIN events : events[id].rotaractYear = year}
    IN  /\ \E rows \in SortByStartDate({EventRow(id) : id \in ids}) :
              resp' = [report |-> "event-wise", rotaractYear |-> year, events |-> rows]
        /\ UNCHANGED <<store, reqs, okLog>>

ReportEventIds == {"e1", "e2"}
Budgets == {0, 3}              \* req.body.estimatedBudget of createEvent: left out, given

\* createEvent: an event created in the month `start` in which it starts (rotaractYear is
\* getFinancialYear() at creation), with the budget of the body
BudgetEvent(budget, start) ==
    [EventDefaults EXCEPT !.estimatedBudget = budget, !.startDate = start,
                          !.rotaractYear = getFinancialYear(start)]

EventCollections ==
    {[id \in ReportEventIds |-> IF id = "e1" THEN BudgetEvent(b1, d1) ELSE BudgetEvent(b2, d2)] :
        b1 \in Budgets, b2 \in Budgets, d1 \in Dates, d2 \in Dates}

\* expenses of the two events, pending and approved
EventDocs ==
    {[ReportDoc("m1", "donation", amount, status, StartDate) EXCEPT !.event = event] :
        amount \in {1, 2}, status \in {"pending", "approved"}, event \in ReportEventIds}

InitEventWise ==
    \E coll \in Collections(EventDocs), evs \in EventCollections :
        /\ expenses = coll
        /\ nextId = Len(coll) + 1
        /\ archives = [y \in FiscalYears |-> "none"]
        /\ settings = <<SettingsDefaults>>
        /\ users = Club(UserIds)
        /\ events = evs
        /\ now \in Dates
        /\ reqs = {}
        /\ resp = NoReport
        /\ okLog = [id \in ExpenseIds |-> {}]

NextEventWise == \E rotaractYear \in QueryYears : GetEventWiseReport(rotaractYear)

SpecEventWise == InitEventWise /\ [][NextEventWise]_vars

----------------------------------------------------------------------------
(* Authentication: login, admin login and the account lockout. The clock counts hours. *)

LockAfter == 5                 \* failed attempts that lock the account
LockHours == 2                 \* Date.now() + 2 * 60 * 60 * 1000

\* userSchema.methods.isLocked
isLocked(doc, at) == doc.lockUntil # NullDate /\ doc.lockUntil > at

\* userSchema.methods.incLoginAttempts: `this` is the document as the handler read it
\* (seen); updateOne applies $set / $unset / $inc to the stored document (doc)
incLoginAttempts(seen, doc, at) ==
    IF seen.lockUntil # NullDate /\ seen.lockUntil < at
    THEN [doc EXCEPT !.loginAttempts = 1, !.lockUntil = NullDate]
    ELSE IF seen.loginAttempts + 1 >= LockAfter
    THEN [doc EXCEPT !.loginAttempts = @ + 1, !.lockUntil = at + LockHours]
    ELSE [doc EXCEPT !.loginAttempts = @ + 1]

\* login and adminLogin, on success: loginAttempts = 0, lockUntil = undefined, the new
\* refresh token pushed; save() writes the paths that differ from the document as read,
\* $push-es the token and increments __v
LoginWrite(seen, doc, token) ==
    [doc EXCEPT !.loginAttempts = IF seen.loginAttempts # 0 THEN 0 ELSE @,
                !.lockUntil = IF seen.lockUntil # NullDate THEN NullDate ELSE @,
                !.refreshTokens = @ \cup {token},
                !.v = @ + 1]

\* req.body of a login: the credentials match, do not match, or are left out
Credentials == {"good", "wrong", "missing"}

\* the checks of login and adminLogin once the user is found: the lock, the credentials
\* (a wrong memberId or password, or a memberId after the password was set, count a
\* failed attempt), the deactivated account
CheckLogin(op, user, credentials, checksActive) ==
    IF isLocked(users[user], now) THEN Answer("Locked")
    ELSE IF credentials = "missing" THEN Answer("MissingFields")
    ELSE IF credentials = "wrong"
    THEN Await([Request(op, 0, user) EXCEPT !.arg = "wrong", !.seen = users[user]])
    ELSE IF checksActive /\ ~users[user].isActive THEN Answer("InvalidCredentials")
    ELSE Await([Request(op, 0, user) EXCEPT !.arg = "good", !.seen = users[user],
                                            !.issued = RefreshToken(user, now)])

\* POST /api/auth/login: User.findOne({ email }) and the checks
LoginRead(user, credentials) ==
    IF user \notin DOMAIN users THEN Answer("InvalidCredentials")
    ELSE CheckLogin("login", user, credentials, TRUE)

\* the roles adminLogin looks for
AdminLoginRoles == {"treasurer", "president", "secretary", "joint_secretary"}

\* POST /api/auth/admin-login: User.findOne({ email, isAdmin: true, role: { $in: [...] } })
\* and the checks; a missing password does not match
AdminLoginRead(user, credentials) ==
    IF \/ user \notin DOMAIN users
       \/ ~users[user].isAdmin
       \/ users[user].role \notin AdminLoginRoles
    THEN Answer("InvalidCredentials")
    ELSE CheckLogin("adminLogin", user,
                    IF credentials = "missing" THEN "wrong" ELSE credentials, FALSE)

\* the failed attempt is counted: await user.incLoginAttempts(), then 401 (or 400)
LoginFail(q) ==
    /\ q \in reqs /\ q.op \in {"login", "adminLogin"} /\ q.arg = "wrong"
    /\ users' = IF q.user \in DOMAIN users
                THEN [users EXCEPT ![q.user] = incLoginAttempts(q.seen, @, now)]
                ELSE users
    /\ Finish(q, "InvalidCredentials")
    /\ UNCHANGED <<expenses, nextId, archives, settings, events, now, okLog>>

\* the successful login is saved and answered with the tokens
LoginSave(q) ==
    /\ q \in reqs /\ q.op \in {"login", "adminLogin"} /\ q.arg = "good"
    /\ IF q.user \in DOMAIN users
       THEN /\ users' = [users EXCEPT ![q.user] = LoginWrite(q.seen, @, q.issued)]
            /\ Finish(q, "OK")
       ELSE /\ Finish(q, "Failure")
            /\ UNCHANGED users
    /\ UNCHANGED <<expenses, nextId, archives, settings, events, now, okLog>>

ClockStart == 1                \* the time at which the server starts

\* time passes
Elapse ==
    /\ now < ClockStart + MaxClock
    /\ now' = now + 1
    /\ UNCHANGED <<expenses, nextId, archives, settings, users, events, reqs, resp, okLog>>

\* the server starts with the club's users and no session
InitAuth ==
    /\ expenses = << >>
    /\ nextId = 1
    /\ archives = [y \in FiscalYears |-> "none"]
    /\ settings = <<SettingsDefaults>>
    /\ users = Club(UserIds)
    /\ events = Planned(EventIds)
    /\ now = ClockStart
    /\ reqs = {}
    /\ resp = "none"
    /\ okLog = [id \in ExpenseIds |-> {}]

\* the model stops sending logins for a user of many stored attempts or sessions
MayLogin(user) ==
    user \in DOMAIN users => /\ users[user].loginAttempts < MaxAttempts
                             /\ users[user].v < MaxSessions

NextLock ==
    \/ \E credentials \in Credentials : MayLogin(Treasurer) /\ LoginRead(Treasurer, credentials)
    \/ \E user \in {Treasurer, "m1"}, credentials \in Credentials :
          MayLogin(user) /\ AdminLoginRead(user, credentials)
    \/ \E q \in reqs : LoginFail(q)
    \/ \E q \in reqs : LoginSave(q)
    \/ Elapse

SpecLock == InitAuth /\ [][NextLock]_vars

----------------------------------------------------------------------------
(* Sessions: refresh tokens, logout and the password changes. The clock counts seconds, *)
(* the unit of a token's iat.                                                           *)

\* save() of a document whose refreshTokens array was replaced: the update is
\* { $set: { refreshTokens: [...] }, $inc: { __v: 1 } } with __v in the filter, so it
\* finds no document (VersionError) when __v has moved since the read
VersionMatches(seen, user) == user \in DOMAIN users /\ users[user].v = seen.v

\* refreshToken: user.refreshTokens = user.refreshTokens.filter(t => t.token !==
\* req.refreshToken); generateRefreshToken(); the array as a whole is saved
RefreshWrite(seen, doc, token, issued) ==
    [doc EXCEPT !.refreshTokens = (seen.refreshTokens \ {token}) \cup {issued}, !.v = @ + 1]

\* logout: req.user.refreshTokens = req.user.refreshTokens.filter(...)
LogoutWrite(seen, doc, token) ==
    [doc EXCEPT !.refreshTokens = seen.refreshTokens \ {token}, !.v = @ + 1]

\* resetPassword and the first save of changePassword: the new password (the pre-save
\* hook stamps passwordChangedAt = Date.now() - 1000), hasChangedPassword, and
\* refreshTokens = []; __v moves when the array was not empty already
PasswordWrite(seen, doc, at) ==
    [doc EXCEPT !.hasChangedPassword = TRUE, !.passwordChangedAt = at - 1,
                !.refreshTokens = IF seen.refreshTokens = {} THEN @ ELSE {},
                !.v = IF seen.refreshTokens = {} THEN @ ELSE @ + 1]

\* the second save of changePassword: the $push of the new refresh token
IssueWrite(doc, issued) == [doc EXCEPT !.refreshTokens = @ \cup {issued}, !.v = @ + 1]

\* verifyRefreshToken, then refreshToken up to its save: the token names its user
\* (jwt.verify); 401 when the user is gone or the token is not in refreshTokens
VerifyRefreshToken(token) ==
    LET user == token[1]
    IN  IF token = NoToken THEN Answer("InvalidCredentials")
        ELSE IF user \notin DOMAIN users THEN Answer("InvalidCredentials")
        ELSE IF token \notin users[user].refreshTokens THEN Answer("Revoked")
        ELSE Await([Request("refresh", 0, user) EXCEPT !.seen = users[user], !.token = token,
                                                       !.issued = RefreshToken(user, now)])

\* refreshToken: await user.save(), then the new tokens
RefreshSave(q) ==
    /\ q \in reqs /\ q.op = "refresh"
    /\ IF VersionMatches(q.seen, q.user)
       THEN /\ users' = [users EXCEPT ![q.user] = RefreshWrite(q.seen, @, q.token, q.issued)]
            /\ Finish(q, "OK")
       ELSE /\ Finish(q, "Failure")
            /\ UNCHANGED users
    /\ UNCHANGED <<expenses, nextId, archives, settings, events, now, okLog>>

\* POST /api/auth/logout of the user protect found: nothing to save without a token in
\* the body or when the filter removes nothing
LogoutRead(user, token) ==
    IF user \notin DOMAIN users THEN Answer("InvalidCredentials")
    ELSE IF token \notin users[user].refreshTokens THEN Answer("OK")
    ELSE Await([Request("logout", 0, user) EXCEPT !.seen = users[user], !.token = token])

\* logout: await req.user.save()
LogoutSave(q) ==
    /\ q \in reqs /\ q.op = "logout"
    /\ IF VersionMatches(q.seen, q.user)
       THEN /\ users' = [users EXCEPT ![q.user] = LogoutWrite(q.seen, @, q.token)]
            /\ Finish(q, "OK")
       ELSE /\ Finish(q, "Failure")
            /\ UNCHANGED users
    /\ UNCHANGED <<expenses, nextId, archives, settings, events, now, okLog>>

\* PUT /api/auth/change-password: User.findById and the check of the current password
\* (or memberId); PUT /api/auth/reset-password/:token: User.findOne by the reset token
PasswordRead(op, user, credentials) ==
    IF user \notin DOMAIN users \/ credentials # "good" THEN Answer("InvalidCredentials")
    ELSE Await([Request(op, 0, user) EXCEPT !.seen = users[user]])

\* the save of the new password. resetPassword answers; changePassword generates its
\* tokens and goes on to its second save.
PasswordSave(q) ==
    /\ q \in reqs /\ q.op \in {"changePassword", "resetPassword"} /\ q.arg = Null
    /\ IF q.seen.refreshTokens = {} \/ VersionMatches(q.seen, q.user)
       THEN /\ users' = [users EXCEPT ![q.user] = PasswordWrite(q.seen, @, now)]
            /\ IF q.op = "resetPassword"
               THEN Finish(q, "OK")
               ELSE /\ reqs' = (reqs \ {q}) \cup
                               {[q EXCEPT !.arg = "saved", !.issued = RefreshToken(q.user, now)]}
                    /\ UNCHANGED resp
       ELSE /\ Finish(q, "Failure")
            /\ UNCHANGED users
    /\ UNCHANGED <<expenses, nextId, archives, settings, events, now, okLog>>

\* changePassword: the second save, then the new tokens
PasswordIssue(q) ==
    /\ q \in reqs /\ q.op = "changePassword" /\ q.arg = "saved"
    /\ users' = [users EXCEPT ![q.user] = IssueWrite(@, q.issued)]
    /\ Finish(q, "OK")
    /\ UNCHANGED <<expenses, nextId, archives, settings, events, now, okLog>>

\* the refresh tokens a client may hold
Tokens == {RefreshToken(Treasurer, at) : at \in ClockStart .. (ClockStart + MaxClock)}

NextTokens ==
    \/ MayLogin(Treasurer) /\ LoginRead(Treasurer, "good")
    \/ \E q \in reqs : LoginSave(q)
    \/ \E token \in Tokens \cup {NoToken} : MayLogin(Treasurer) /\ VerifyRefreshToken(token)
    \/ \E q \in reqs : RefreshSave(q)
    \/ \E token \in Tokens : LogoutRead(Treasurer, token)
    \/ \E q \in reqs : LogoutSave(q)
    \/ \E op \in {"changePassword", "resetPassword"}, credentials \in {"good", "wrong"} :
          MayLogin(Treasurer) /\ PasswordRead(op, Treasurer, credentials)
    \/ \E q \in reqs : PasswordSave(q)
    \/ \E q \in reqs : PasswordIssue(q)
    \/ Elapse

SpecTokens == InitAuth /\ [][NextTokens]_vars

----------------------------------------------------------------------------
(* The fiscal year of a date: getFinancialYear on a calendar of two and a half years *)

CalendarStart == 2024 * 12     \* January 2024
CalendarDates == CalendarStart .. (CalendarStart + MaxCalendarMonths)

InitCalendar ==
    /\ expenses = << >>
    /\ nextId = 1
    /\ archives = [y \in FiscalYears |-> "none"]
    /\ settings = <<SettingsDefaults>>
    /\ users = Club(UserIds)
    /\ events = Planned(EventIds)
    /\ now = CalendarStart
    /\ reqs = {}
    /\ resp = NoReport
    /\ okLog = [id \in ExpenseIds |-> {}]

\* a month passes on the calendar
AdvanceClock ==
    /\ now < CalendarStart + MaxCalendarMonths
    /\ now' = now + 1
    /\ UNCHANGED <<expenses, nextId, archives, settings, users, events, reqs, resp, okLog>>

\* a call getFinancialYear(date); without an argument the date is new Date()
AskFinancialYear(date) ==
    /\ resp' = [report |-> "financialYear", date |-> date, label |-> getFinancialYear(date)]
    /\ UNCHANGED <<store, reqs, okLog>>

NextCalendar ==
    \/ AdvanceClock
    \/ AskFinancialYear(now)
    \/ \E date \in CalendarDates : AskFinancialYear(date)

SpecCalendar == InitCalendar /\ [][NextCalendar]_vars

\* the dates of the expenses counted in entry g of the month rollup of the response
RollupDates(g) ==
    {expenses[id].date : id \in
        {i \in Match(expenses, resp.rotaractYear) :
            IF resp.report = "summary"
            THEN Month(expenses[i].date) = g._id.month /\ Year(expenses[i].date) = g._id.year
            ELSE Month(expenses[i].date) = g._id}}

\* the month rollup of the response
MonthRollup ==
    IF resp.report = "summary" THEN resp.expensesByMonth ELSE resp.monthlyExpenses

\* C21: the month rollup of the financial summary and of the dashboard is chronological:
\* every entry counts the expenses of one calendar month, and the month of an earlier
\* entry precedes the month of a later one
C21_MonthRollupChronological ==
    resp.report \in {"summary", "dashboard"} =>
        /\ \A i \in 1 .. Len(MonthRollup) : Cardinality(RollupDates(MonthRollup[i])) = 1
        /\ \A i, j \in 1 .. Len(MonthRollup) :
              i < j => \A d \in RollupDates(MonthRollup[i]), e \in RollupDates(MonthRollup[j]) :
                           d < e

\* the label of a date is Y-(Y+1) from July to December of Y and (Y-1)-Y from January to
\* June of Y, and names two consecutive years
LabelOfDate ==
    resp.report = "financialYear" =>
        /\ Month(resp.date) \in 7 .. 12 => resp.label = <<Year(resp.date), Year(resp.date) + 1>>
        /\ Month(resp.date) \in 1 .. 6 => resp.label = <<Year(resp.date) - 1, Year(resp.date)>>
        /\ resp.label[2] = resp.label[1] + 1

\* two calls in a row: the same date gives the same label whatever the clock, a later
\* date no smaller a label, and the next month another label exactly when it is July
LabelsInARow ==
    (resp.report = "financialYear" /\ resp'.report = "financialYear") =>
        /\ resp'.date = resp.date => resp'.label = resp.label
        /\ resp'.date >= resp.date => resp'.label[1] >= resp.label[1]
        /\ resp'.date = resp.date + 1 => (resp'.label # resp.label <=> Month(resp'.date) = 7)

\* C25: getFinancialYear is a function of its date alone: Y-(Y+1) for July to December
\* of Y, (Y-1)-Y for January to June; the label names two consecutive years, changes
\* exactly at 1 July and never decreases as the date advances
C25_FinancialYearOfDate == []LabelOfDate /\ [][LabelsInARow]_vars

\* the call for July 2025, on a clock that has reached the year after
C25_Witness ==
    /\ resp.report = "financialYear"
    /\ resp.date = 2025 * 12 + 6
    /\ resp.label = <<2025, 2026>>
    /\ now > resp.date + 6

\* C26: when approveExpense, rejectExpense or reimburseExpense answers with an error, the
\* expense is as it was: a transition handler that leaves with a response other than
\* success has written nothing
C26_ErrorLeavesExpenseUnchanged ==
    [][\A q \in reqs :
          (q.op \in {"approve", "reject", "reimburse"} /\ q \notin reqs' /\ resp' # "OK")
              => UNCHANGED expenses]_vars

\* the sum of the amounts of the expenses of an event
SpentOn(event) == SumAmounts(expenses, {id \in DOMAIN expenses : expenses[id].event = event})

GrantedTokens(q) == q.op \in {"login", "adminLogin"} /\ q \notin reqs' /\ resp' = "OK"

\* C23: a user whose failed login attempts have reached 5 has a lock set, whatever the
\* interleaving of the failed logins and admin logins, and no login is granted tokens
\* while the user's lock has not expired
C23_AccountLockout ==
    /\ [](\A user \in DOMAIN users :
            users[user].loginAttempts >= LockAfter => users[user].lockUntil # NullDate)
    /\ [][\A q \in reqs : GrantedTokens(q) => ~isLocked(users[q.user], now)]_vars

\* C27: a refresh token is single-use: when a refresh or a logout with token T is
\* answered with success, T is no longer among the user's refresh tokens (so that a
\* later refresh presenting it is answered as revoked)
C27_RefreshTokenSingleUse ==
    [][\A q \in reqs :
          (q.op \in {"refresh", "logout"} /\ q \notin reqs' /\ resp' = "OK")
              => q.token \notin users'[q.user].refreshTokens]_vars

\* C28: once a password reset or change has succeeded, no refresh token issued before
\* it is among the user's refresh tokens: every token that verifyRefreshToken accepts
\* was issued by or after the change
C28_PasswordChangeEndsSessions ==
    \A user \in DOMAIN users :
        users[user].passwordChangedAt # NullDate =>
            \A token \in users[user].refreshTokens :
                token[2] >= users[user].passwordChangedAt + 1

----------------------------------------------------------------------------
(* ClubSettings.getSettings: the settings singleton *)

\* the callers of ClubSettings.getSettings
SettingsCallers == {"getSettings", "updateSettings", "addMember", "startNewYear", "syncAdminUsers"}

\* what a caller of getSettings received: the position of the document in the collection
SettingsSeen(caller, doc) == [report |-> "settings", caller |-> caller, doc |-> doc]

\* this.findOne(): the first document of the collection, if there is one
GetSettingsFind(caller) ==
    IF settings # << >>
    THEN /\ resp' = SettingsSeen(caller, 1)
         /\ UNCHANGED <<store, reqs, okLog>>
    ELSE Await(Request("getSettings", 0, caller))

\* this.create({ currentRotaractYear: "2025-2026" }) after findOne found nothing
GetSettingsCreate(q) ==
    /\ q \in reqs /\ q.op = "getSettings"
    /\ settings' = Append(settings, SettingsDefaults)
    /\ reqs' = reqs \ {q}
    /\ resp' = SettingsSeen(q.user, Len(settings) + 1)
    /\ UNCHANGED <<expenses, nextId, archives, users, events, now, okLog>>

\* a database without a settings document: the first start, where startServer lets the server
\* listen even when syncAdminUsers failed, or several instances starting at once
InitSettings ==
    /\ expenses = << >>
    /\ nextId = 1
    /\ archives = [y \in FiscalYears |-> "none"]
    /\ settings = << >>
    /\ users = Club(UserIds)
    /\ events = Planned(EventIds)
    /\ now \in Dates
    /\ reqs = {}
    /\ resp = SettingsSeen(Null, 0)
    /\ okLog = [id \in ExpenseIds |-> {}]

NextSettings ==
    \/ \E caller \in SettingsCallers : GetSettingsFind(caller)
    \/ \E q \in reqs : GetSettingsCreate(q)

SpecSettings == InitSettings /\ [][NextSettings]_vars

\* C29: at most one ClubSettings document exists, and every caller of getSettings receives
\* that first document
C29_OneSettingsDocument ==
    /\ Len(settings) <= 1
    /\ resp.doc <= 1

----------------------------------------------------------------------------
(* Member administration: /api/admin/members, closeYear and syncAdminUsers *)

\* protect, for a caller whose access token is valid and was issued after the last change of
\* the password: the token's user exists and is active
Protect(caller) == caller \in DOMAIN users /\ users[caller].isActive

\* adminOnly: req.user.isAdmin
adminOnly(caller) == users[caller].isAdmin

\* authorize(...roles): roles.includes(req.user.role)
authorize(caller, roles) == users[caller].role \in roles

\* treasurerOnly
treasurerOnly(caller) ==
    users[caller].role \in {"secretary", "joint_secretary", "treasurer", "president"}

\* req.body.role: absent, an admin role, a non-admin role, and a string that is no role
RoleInputs == {Null, "treasurer", "alumni", "chairman"}
NewMemberIds == {"m2"}             \* the e-mail of a user addMember can add
AdminCallers == UserIds            \* a treasurer, a president and a member

\* addMember: the existing-user check, the role checks, getSettings and User.create
AddMember(caller, email, role) ==
    IF ~(Protect(caller) /\ adminOnly(caller)) THEN Answer("Forbidden")
    ELSE IF email \in DOMAIN users THEN Answer("ValidationError")
    ELSE IF role # Null /\ (role \notin USER_ROLES \/ role \in ADMIN_ROLES)
    THEN Answer("ValidationError")
    ELSE /\ settings # << >>
         /\ users' = [user \in DOMAIN users \cup {email} |->
                         IF user = email
                         THEN [NewUser(IF role = Null THEN "member" ELSE role) EXCEPT
                                  !.rotaractYear = settings[1].currentRotaractYear]
                         ELSE users[user]]
         /\ resp' = "OK"
         /\ UNCHANGED <<expenses, nextId, archives, settings, events, now, reqs, okLog>>

\* updateMember: the updates findByIdAndUpdate applies when the body has this role
MemberUpdates(doc, role) ==
    IF role = Null THEN doc
    ELSE [doc EXCEPT !.role = role,
                     !.isAdmin = role \in ADMIN_ROLES,
                     !.isAlumni = (role = "alumni")]

\* updateMember: User.findById, the 404 and the role check
UpdateMemberRead(caller, id, role) ==
    IF ~(Protect(caller) /\ adminOnly(caller)) THEN Answer("Forbidden")
    ELSE IF id \notin DOMAIN users THEN Answer("NotFound")
    ELSE IF role # Null /\ role \notin USER_ROLES THEN Answer("ValidationError")
    ELSE Await([Request("updateMember", 0, caller) EXCEPT !.member = id, !.arg = role])

\* updateMember: User.findByIdAndUpdate(req.params.id, updates) and the 200 response
UpdateMemberSave(q) ==
    /\ q \in reqs /\ q.op = "updateMember"
    /\ users' = IF q.member \in DOMAIN users
                THEN [users EXCEPT ![q.member] = MemberUpdates(@, q.arg)]
                ELSE users
    /\ Finish(q, "OK")
    /\ UNCHANGED <<expenses, nextId, archives, settings, events, now, okLog>>

\* changeMemberRole: the document in memory after the three assignments
RoleWrite(seen, role) ==
    [seen EXCEPT !.role = role,
                 !.isAdmin = role \in ADMIN_ROLES,
                 !.isAlumni = (role = "alumni")]

\* markAsAlumni: the document in memory after the three assignments
AlumniWrite(seen) == [seen EXCEPT !.isAlumni = TRUE, !.role = "alumni", !.isAdmin = FALSE]

\* member.save(): the $set of the paths whose value differs from the one that was read
SaveModified(seen, want, doc) ==
    [doc EXCEPT !.role = IF want.role # seen.role THEN want.role ELSE @,
                !.isAdmin = IF want.isAdmin # seen.isAdmin THEN want.isAdmin ELSE @,
                !.isAlumni = IF want.isAlumni # seen.isAlumni THEN want.isAlumni ELSE @]

\* changeMemberRole: authorize("president"), the role checks, User.findById and the 404
ChangeMemberRoleRead(caller, id, role) ==
    IF ~(Protect(caller) /\ adminOnly(caller) /\ authorize(caller, {"president"}))
    THEN Answer("Forbidden")
    ELSE IF role = Null THEN Answer("MissingFields")
    ELSE IF role \notin USER_ROLES THEN Answer("ValidationError")
    ELSE IF id \notin DOMAIN users THEN Answer("NotFound")
    ELSE Await([Request("changeMemberRole", 0, caller) EXCEPT
                   !.member = id, !.arg = role, !.seen = users[id]])

\* changeMemberRole: member.save() and the 200 response
ChangeMemberRoleSave(q) ==
    /\ q \in reqs /\ q.op = "changeMemberRole"
    /\ IF q.member \in DOMAIN users
       THEN /\ users' = [users EXCEPT
                            ![q.member] = SaveModified(q.seen, RoleWrite(q.seen, q.arg), @)]
            /\ Finish(q, "OK")
       ELSE /\ Finish(q, "Failure")
            /\ UNCHANGED users
    /\ UNCHANGED <<expenses, nextId, archives, settings, events, now, okLog>>

\* markAsAlumni: User.findById and the 404
MarkAsAlumniRead(caller, id) ==
    IF ~(Protect(caller) /\ adminOnly(caller)) THEN Answer("Forbidden")
    ELSE IF id \notin DOMAIN users THEN Answer("NotFound")
    ELSE Await([Request("markAsAlumni", 0, caller) EXCEPT !.member = id, !.seen = users[id]])

\* markAsAlumni: member.save() and the 200 response
MarkAsAlumniSave(q) ==
    /\ q \in reqs /\ q.op = "markAsAlumni"
    /\ IF q.member \in DOMAIN users
       THEN /\ users' = [users EXCEPT
                            ![q.member] = SaveModified(q.seen, AlumniWrite(q.seen), @)]
            /\ Finish(q, "OK")
       ELSE /\ Finish(q, "Failure")
            /\ UNCHANGED users
    /\ UNCHANGED <<expenses, nextId, archives, settings, events, now, okLog>>

\* POST /api/archive/close-year behind protect, adminOnly and treasurerOnly
CloseYearRequest(caller, carryOverMembers) ==
    IF ~(Protect(caller) /\ adminOnly(caller) /\ treasurerOnly(caller))
    THEN Answer("Forbidden")
    ELSE CloseYearBy(caller, carryOverMembers)

\* config.adminUsers: the e-mail configured for each admin role, Null for a role without one.
\* The configured e-mails are those of users of the club.
AdminConfigs ==
    {[role \in ADMIN_ROLES |->
        IF role = "president" THEN President ELSE IF role = "treasurer" THEN holder ELSE Null] :
     holder \in {Treasurer, "m1"}}

\* syncAdminUsers: the fields set on the user found by the configured e-mail
SyncedUser(doc, role, currentYear, at) ==
    [doc EXCEPT !.role = role, !.isAdmin = TRUE, !.isActive = TRUE,
                !.rotaractYear = currentYear, !.hasChangedPassword = TRUE,
                !.passwordChangedAt = at]

\* syncAdminUsers, run by startServer before the server listens: every configured role is
\* given to the user with the configured e-mail, and the admins of an admin role whose e-mail
\* is not configured lose isAdmin
SyncAdminUsers(adminUsers) ==
    /\ reqs = {}
    /\ settings # << >>
    /\ LET configured == {role \in ADMIN_ROLES : adminUsers[role] # Null}
           adminEmails == {adminUsers[role] : role \in configured}
           synced == [user \in DOMAIN users |->
                        IF user \in adminEmails
                        THEN SyncedUser(users[user],
                                        CHOOSE role \in configured : adminUsers[role] = user,
                                        settings[1].currentRotaractYear, now)
                        ELSE users[user]]
       IN  /\ adminEmails \subseteq DOMAIN users
           /\ users' = [user \in DOMAIN users |->
                           IF /\ synced[user].isAdmin
                              /\ synced[user].role \in ADMIN_ROLES
                              /\ user \notin adminEmails
                           THEN [synced[user] EXCEPT !.isAdmin = FALSE]
                           ELSE synced[user]]
    /\ UNCHANGED <<expenses, nextId, archives, settings, events, now, reqs, resp, okLog>>

NextAdmin ==
    \/ \E caller \in AdminCallers, email \in NewMemberIds, role \in RoleInputs :
          AddMember(caller, email, role)
    \/ \E caller \in AdminCallers, id \in Members, role \in RoleInputs :
          UpdateMemberRead(caller, id, role)
    \/ \E q \in reqs : UpdateMemberSave(q)
    \/ \E caller \in AdminCallers, id \in Members, role \in RoleInputs :
          ChangeMemberRoleRead(caller, id, role)
    \/ \E q \in reqs : ChangeMemberRoleSave(q)
    \/ \E caller \in AdminCallers, id \in Members : MarkAsAlumniRead(caller, id)
    \/ \E q \in reqs : MarkAsAlumniSave(q)
    \/ \E caller \in AdminCallers, carryOverMembers \in {Null, "carry"} :
          CloseYearRequest(caller, carryOverMembers)
    \/ \E q \in reqs : CloseYearMark(q)
    \/ \E adminUsers \in AdminConfigs : SyncAdminUsers(adminUsers)

\* the club in the first month of the year of its settings
InitAdmin ==
    /\ Init
    /\ getFinancialYear(now) = SettingsDefaults.currentRotaractYear

SpecAdmin == InitAdmin /\ [][NextAdmin]_vars

\* a step in which the role of a stored user changes
RoleChanged ==
    \E user \in DOMAIN users \cap DOMAIN users' : users'[user].role # users[user].role

\* the step completes a request made by a user whose role is president
PresidentAnswered ==
    \E q \in reqs \ reqs' : q.user \in DOMAIN users /\ users[q.user].role = "president"

\* C24: a step that completes a request and changes the role of a user completes a request
\* made by a user whose own role is president
C24_RoleChangeByPresidentOnly ==
    [][(RoleChanged /\ reqs' # reqs) => PresidentAnswered]_vars

\* C30: every user with isAdmin = true holds one of the admin roles
C30_AdminFlagMatchesRole ==
    \A user \in DOMAIN users : users[user].isAdmin => users[user].role \in ADMIN_ROLES

====
